---- MODULE Spec2Model ----
(***************************************************************************)
(* Token-bucket rate limiting middleware for Gin (package ratelimit).      *)
(*                                                                         *)
(* State machine of one middleware instance built by New(opts): the        *)
(* key -> *rate.Limiter store, the limiter objects on the heap, and the    *)
(* requests that run the handler closure returned by New.  A request runs  *)
(* the closure in three steps that other requests can interleave with:     *)
(* Store.Get, (NewLimiter + Store.Set) on a miss, and limiter.Allow()      *)
(* followed by the request-local tail (reject handler + Abort, or Next).   *)
(* NextLock refines Get and Set into the acquire and release steps of the  *)
(* store's RWMutex; NextTwo adds the requests of a second middleware       *)
(* instance, built by a second call of New, with its own store; NextAllow  *)
(* refines Allow into its read and its write under the limiter's mutex.    *)
(*                                                                         *)
(* Strings (client addresses, header values, keys) are numbered 0..NStr,   *)
(* 0 standing for the empty string.  Time is counted in ticks; a limiter   *)
(* with rate.Every(Period ticks) holds its tokens in units of 1/Period     *)
(* token, so that the float arithmetic of the limiter is exact.            *)
(***************************************************************************)
EXTENDS Integers, Sequences, FiniteSets, TLC

\* ---------------------------------------------------------------- bounds
\* number of requests served
NReq == 3
\* largest Options.Burst tried
MaxBurst == 2
\* last clock tick
MaxTime == 2
\* ticks per token of the non-zero rate, rate.Every(Period)
Period == 2
\* strings are 0..NStr, 0 is ""
NStr == 1

\* ------------------------------------------------------ program constants
StatusOK == 200
StatusTooManyRequests == 429
StatusTeapot == 418
\* gin's abortIndex, what c.Abort() sets the handler index to
AbortIndex == 63
\* the handler chain of the router: the middleware, then the route handler
NHandlers == 2

Reqs == 1..NReq
Strings == 0..NStr
\* rate.Limit values: 0 (no refill) and 1 = rate.Every(Period)
Rates == {0, 1}
\* the nil *rate.Limiter / absent map entry
Nil == 0

VARIABLES
    conf,      \* the Options value handed to New
    opts,      \* the options captured by the closure, defaults filled in
    serial,    \* TRUE: the driver issues one request at a time (httptest)
    now,       \* time.Now(), in ticks
    limiters,  \* memoryStore.limiters: key -> limiter id, Nil when absent
    mu,        \* memoryStore.mu: the requests holding the read lock, the writer
    limiters2, \* memoryStore.limiters of the store of a second instance
    heap,      \* the rate.Limiter objects allocated so far, by limiter id
    req,       \* per request: position in the closure, locals, gin.Context
    log        \* request ids in the order of their Allow() calls

vars == <<conf, opts, serial, now, limiters, mu, limiters2, heap, req, log>>

Min(a, b) == IF a < b THEN a ELSE b

\* ------------------------------------------------------------ gin.Context
\* (index is 1-based here: 0 before the chain starts, gin starts at -1)
NewContext(addr, hdr) ==
    [addr |-> addr, hdr |-> hdr, index |-> 0,
     status |-> StatusOK, body |-> <<>>,
     nextRan |-> 0, rejectCalls |-> 0, rejectLim |-> Nil]

\* c.String(code, s): WriteHeader is ignored once the body is written
String(c, code, s) ==
    [c EXCEPT !.status = IF c.body = <<>> THEN code ELSE @,
              !.body = Append(@, s)]

Abort(c) == [c EXCEPT !.index = AbortIndex]

\* the route handler registered after the middleware
Downstream(c) == [String(c, StatusOK, "OK") EXCEPT !.nextRan = @ + 1]

\* the loop of c.Next(): run the handlers left in the chain
RECURSIVE NextLoop(_)
NextLoop(c) ==
    IF c.index <= NHandlers
    THEN NextLoop([Downstream(c) EXCEPT !.index = @ + 1])
    ELSE c

Next_(c) == NextLoop([c EXCEPT !.index = @ + 1])

\* ------------------------------------------------------------ rate.Limiter
NewLimiter(r, b) ==
    [limit |-> r, burst |-> b, tokens |-> b * Period, last |-> 0]

\* mutant: the refill runs at twice the rate
advance_Fast(lim, t) ==
    LET last == IF t < lim.last THEN t ELSE lim.last
        elapsed == t - last
    IN  Min(lim.tokens + elapsed * lim.limit * 2, lim.burst * Period)

\* tokens at time t: elapsed * limit added, capped at burst
advance(lim, t) ==
    LET last == IF t < lim.last THEN t ELSE lim.last
        elapsed == t - last
    IN  Min(lim.tokens + elapsed * lim.limit, lim.burst * Period)

\* mutant: the token is taken even when the request is rejected
reserveN_Deduct(lim, t) ==
    IF lim.limit = 0
    THEN IF lim.burst >= 1
         THEN <<TRUE, [lim EXCEPT !.burst = @ - 1]>>
         ELSE <<FALSE, lim>>
    ELSE LET tokens == advance(lim, t) - Period
             ok == 1 <= lim.burst /\ tokens >= 0
         IN  <<ok, [lim EXCEPT !.last = t, !.tokens = tokens]>>

\* lim.Allow() at time t: <<ok, limiter afterwards>>
reserveN(lim, t) ==
    IF lim.limit = 0
    THEN IF lim.burst >= 1
         THEN <<TRUE, [lim EXCEPT !.burst = @ - 1]>>
         ELSE <<FALSE, lim>>
    ELSE LET tokens == advance(lim, t) - Period
             ok == 1 <= lim.burst /\ tokens >= 0
         IN  IF ok THEN <<TRUE, [lim EXCEPT !.last = t, !.tokens = tokens]>>
                   ELSE <<FALSE, lim>>

\* ------------------------------------------------------------------ stores
newMemoryStore == [k \in Strings |-> Nil]

\* mutant: Get never finds the entry
memoryStore_Get_Miss(m, key) == <<Nil, FALSE>>

memoryStore_Get(m, key) == <<m[key], m[key] # Nil>>

\* mutant: one limiter for all keys
memoryStore_Set_Global(m, key, l) == [k \in Strings |-> l]

\* mutant: the entry is never written
memoryStore_Set_Lost(m, key, l) == m

memoryStore_Set(m, key, l) == [m EXCEPT ![key] = l]

redisStore_Get(m, key) == <<Nil, FALSE>>

\* mutant: Set keeps the limiter
redisStore_Set_Persist(m, key, l) == [m EXCEPT ![key] = l]

redisStore_Set(m, key, l) == m

Store_Get(m, key) ==
    IF opts.Store = "memory" THEN memoryStore_Get(m, key) ELSE redisStore_Get(m, key)

Store_Set(m, key, l) ==
    IF opts.Store = "memory" THEN memoryStore_Set(m, key, l) ELSE redisStore_Set(m, key, l)

\* --------------------------------------------------------------------- New
ClientIP(c) == c.addr

GetHeader(c) == c.hdr

\* mutant: the configured key function is never called
KeyFunc_AlwaysIP(c) == ClientIP(c)

\* key := opts.KeyFunc(c)
KeyFunc(c) == IF opts.KeyFunc = "ClientIP" THEN ClientIP(c) ELSE GetHeader(c)

DefaultOnLimitExceeded(c, l) == String(c, StatusTooManyRequests, "Too Many Requests")

TeapotOnLimitExceeded(c, l) == String(c, StatusTeapot, "I'm a teapot")

OnLimitExceeded(c, l) ==
    [(IF opts.OnLimitExceeded = "default"
      THEN DefaultOnLimitExceeded(c, l)
      ELSE TeapotOnLimitExceeded(c, l))
     EXCEPT !.rejectCalls = @ + 1, !.rejectLim = l]

OptionsSet ==
    [Rate : Rates, Burst : 0..MaxBurst, KeyFunc : {"nil", "header"},
     Store : {"nil", "redis"}, OnLimitExceeded : {"nil", "teapot"}]

\* mutant: the default reject handler replaces a configured one
New_IgnoreHandler(o) ==
    [Rate |-> o.Rate, Burst |-> o.Burst,
     KeyFunc |-> IF o.KeyFunc = "nil" THEN "ClientIP" ELSE o.KeyFunc,
     Store |-> IF o.Store = "nil" THEN "memory" ELSE o.Store,
     OnLimitExceeded |-> "default"]

\* mutant: the default key is the header, not the client address
New_DefaultHeader(o) ==
    [Rate |-> o.Rate, Burst |-> o.Burst,
     KeyFunc |-> "header",
     Store |-> IF o.Store = "nil" THEN "memory" ELSE o.Store,
     OnLimitExceeded |-> IF o.OnLimitExceeded = "nil" THEN "default" ELSE o.OnLimitExceeded]

\* the defaults New fills in
New(o) ==
    [Rate |-> o.Rate, Burst |-> o.Burst,
     KeyFunc |-> IF o.KeyFunc = "nil" THEN "ClientIP" ELSE o.KeyFunc,
     Store |-> IF o.Store = "nil" THEN "memory" ELSE o.Store,
     OnLimitExceeded |-> IF o.OnLimitExceeded = "nil" THEN "default" ELSE o.OnLimitExceeded]

\* mutant: c.Abort() is missing
AfterAllow_NoAbort(c, ok, l) ==
    IF ~ok THEN OnLimitExceeded(c, l) ELSE Next_(c)

\* the tail of the closure after limiter.Allow() returned ok
AfterAllow(c, ok, l) ==
    IF ~ok THEN Abort(OnLimitExceeded(c, l)) ELSE Next_(c)

\* the engine's c.Next() resumes its loop when the middleware returns
EngineResume(c) == NextLoop([c EXCEPT !.index = @ + 1])

IdleReq ==
    [pc |-> "idle", c |-> NewContext(0, 0), key |-> 0, limiter |-> Nil,
     exists |-> FALSE, t |-> 0, ok |-> FALSE, inst |-> 1, avail |-> 0,
     next |-> NewLimiter(0, 0)]

InitWith(o) ==
    /\ conf = o
    /\ opts = New(o)
    /\ now = 0
    /\ limiters = newMemoryStore
    /\ mu = [readers |-> {}, writer |-> Nil]
    /\ limiters2 = newMemoryStore
    /\ heap = <<>>
    /\ req = [r \in Reqs |-> IdleReq]
    /\ log = <<>>

\* a server handling requests concurrently, with the default store and
\* reject handler
Init ==
    /\ \E o \in OptionsSet :
           o.Store = "nil" /\ o.OnLimitExceeded = "nil" /\ InitWith(o)
    /\ serial = FALSE

\* a driver that issues one request at a time, any Options
InitSeq ==
    /\ \E o \in OptionsSet : InitWith(o)
    /\ serial = TRUE

\* mutant: the bucket is one token too large
CreateLimiter_BurstPlus == NewLimiter(opts.Rate, opts.Burst + 1)

\* mutant: the configured rate is not passed on
CreateLimiter_ZeroRate == NewLimiter(0, opts.Burst)

\* rate.NewLimiter(opts.Rate, opts.Burst), as the closure calls it
CreateLimiter == NewLimiter(opts.Rate, opts.Burst)

\* the address of the next limiter allocated
FreshId == Len(heap) + 1

\* mutant: one package-level store behind every instance
StoreIndex_Global(i) == 1

\* the store object captured by the closure of instance i: each call of New
\* without Options.Store makes its own (opts.Store = newMemoryStore())
StoreIndex(i) == i

\* the map of the store of instance i
StoreOf(i) == IF StoreIndex(i) = 1 THEN limiters ELSE limiters2

\* the tokens limiter lim can spend at time t, in units of 1/Period
Available(lim, t) == IF lim.limit = 0 THEN lim.burst * Period ELSE advance(lim, t)

\* a request arrives: the engine builds the context and enters the chain;
\* the closure computes key := opts.KeyFunc(c)
ServeHTTP(r, addr, hdr) ==
    /\ req[r].pc = "idle"
    /\ r > 1 => req[r - 1].pc # "idle"
    /\ serial => \A q \in Reqs : req[q].pc \in {"idle", "done"}
    /\ LET c == [NewContext(addr, hdr) EXCEPT !.index = 1]
       IN  req' = [req EXCEPT ![r] = [@ EXCEPT !.pc = "get", !.c = c, !.key = KeyFunc(c)]]
    /\ UNCHANGED <<conf, opts, serial, now, limiters, mu, limiters2, heap, log>>

\* limiter, exists := opts.Store.Get(key)
Get(r) ==
    /\ req[r].pc = "get"
    /\ LET got == Store_Get(StoreOf(req[r].inst), req[r].key)
       IN  req' = [req EXCEPT ![r] = [@ EXCEPT !.limiter = got[1], !.exists = got[2],
                                               !.pc = IF got[2] THEN "allow" ELSE "set"]]
    /\ UNCHANGED <<conf, opts, serial, now, limiters, mu, limiters2, heap, log>>

\* limiter = rate.NewLimiter(opts.Rate, opts.Burst); opts.Store.Set(key, limiter)
Set(r) ==
    /\ req[r].pc = "set"
    /\ heap' = Append(heap, CreateLimiter)
    /\ limiters' = IF StoreIndex(req[r].inst) = 1
                   THEN Store_Set(limiters, req[r].key, FreshId) ELSE limiters
    /\ limiters2' = IF StoreIndex(req[r].inst) = 1
                    THEN limiters2 ELSE Store_Set(limiters2, req[r].key, FreshId)
    /\ req' = [req EXCEPT ![r] = [@ EXCEPT !.limiter = FreshId, !.pc = "allow"]]
    /\ UNCHANGED <<conf, opts, serial, now, mu, log>>

\* limiter.Allow(), then the reject handler and Abort, or c.Next()
Allow(r) ==
    /\ req[r].pc = "allow"
    /\ LET l == req[r].limiter
           res == reserveN(heap[l], now)
           c == EngineResume(AfterAllow(req[r].c, res[1], l))
       IN  /\ heap' = [heap EXCEPT ![l] = res[2]]
           /\ req' = [req EXCEPT ![r] = [@ EXCEPT !.pc = "done", !.c = c,
                                                   !.t = now, !.ok = res[1],
                                                   !.avail = Available(heap[l], now)]]
    /\ log' = Append(log, r)
    /\ UNCHANGED <<conf, opts, serial, now, limiters, mu, limiters2>>

\* the clock advances
Tick ==
    /\ now < MaxTime
    /\ now' = now + 1
    /\ UNCHANGED <<conf, opts, serial, limiters, mu, limiters2, heap, req, log>>

Next ==
    \/ \E r \in Reqs, addr \in Strings, hdr \in Strings : ServeHTTP(r, addr, hdr)
    \/ \E r \in Reqs : Get(r)
    \/ \E r \in Reqs : Set(r)
    \/ \E r \in Reqs : Allow(r)
    \/ Tick

Spec == Init /\ [][Next]_vars

SpecSeq == InitSeq /\ [][Next]_vars

\* ------------------------------------------------ the store's RWMutex
\* mutant: readers do not wait for the writer
mu_CanRLock_NoWait(m) == TRUE

\* s.mu.RLock() returns when no writer holds the lock
mu_CanRLock(m) == m.writer = Nil

mu_RLock(m, r) == [m EXCEPT !.readers = @ \cup {r}]

mu_RUnlock(m, r) == [m EXCEPT !.readers = @ \ {r}]

\* s.mu.Lock() returns when nobody holds the lock
mu_CanLock(m) == m.writer = Nil /\ m.readers = {}

mu_Lock(m, r) == [m EXCEPT !.writer = r]

\* mutant: the write lock is never released
mu_Unlock_Forgot(m, r) == m

mu_Unlock(m, r) == [m EXCEPT !.writer = Nil]

\* memoryStore.Get: s.mu.RLock()
RLock(r) ==
    /\ req[r].pc = "get"
    /\ mu_CanRLock(mu)
    /\ mu' = mu_RLock(mu, r)
    /\ req' = [req EXCEPT ![r] = [@ EXCEPT !.pc = "getR"]]
    /\ UNCHANGED <<conf, opts, serial, now, limiters, limiters2, heap, log>>

\* memoryStore.Get: the map is read and the deferred s.mu.RUnlock() runs
RUnlock(r) ==
    /\ req[r].pc = "getR"
    /\ LET got == Store_Get(StoreOf(req[r].inst), req[r].key)
       IN  req' = [req EXCEPT ![r] = [@ EXCEPT !.limiter = got[1], !.exists = got[2],
                                               !.pc = IF got[2] THEN "allow" ELSE "set"]]
    /\ mu' = mu_RUnlock(mu, r)
    /\ UNCHANGED <<conf, opts, serial, now, limiters, limiters2, heap, log>>

\* limiter = rate.NewLimiter(...); memoryStore.Set: s.mu.Lock()
Lock(r) ==
    /\ req[r].pc = "set"
    /\ mu_CanLock(mu)
    /\ mu' = mu_Lock(mu, r)
    /\ heap' = Append(heap, CreateLimiter)
    /\ req' = [req EXCEPT ![r] = [@ EXCEPT !.limiter = FreshId, !.pc = "setW"]]
    /\ UNCHANGED <<conf, opts, serial, now, limiters, limiters2, log>>

\* memoryStore.Set: the map is written and the deferred s.mu.Unlock() runs
Unlock(r) ==
    /\ req[r].pc = "setW"
    /\ limiters' = Store_Set(limiters, req[r].key, req[r].limiter)
    /\ mu' = mu_Unlock(mu, r)
    /\ req' = [req EXCEPT ![r] = [@ EXCEPT !.pc = "allow"]]
    /\ UNCHANGED <<conf, opts, serial, now, limiters2, heap, log>>

\* the closure with the lock steps of Get and Set apart
NextLock ==
    \/ \E r \in Reqs, addr \in Strings, hdr \in Strings : ServeHTTP(r, addr, hdr)
    \/ \E r \in Reqs : RLock(r)
    \/ \E r \in Reqs : RUnlock(r)
    \/ \E r \in Reqs : Lock(r)
    \/ \E r \in Reqs : Unlock(r)
    \/ \E r \in Reqs : Allow(r)
    \/ Tick

\* what the goroutine of request r does next
Step(r) == RLock(r) \/ RUnlock(r) \/ Lock(r) \/ Unlock(r) \/ Allow(r)

\* concurrent requests on the default store, default key and reject handler
InitLock ==
    /\ \E o \in OptionsSet :
           /\ o.Store = "nil" /\ o.OnLimitExceeded = "nil" /\ o.KeyFunc = "nil"
           /\ InitWith(o)
    /\ serial = FALSE

SpecLock == InitLock /\ [][NextLock]_vars

\* the configuration of the default usage: rate.Every(period), Burst 1
InitLive ==
    /\ \E o \in OptionsSet :
           /\ o.Store = "nil" /\ o.OnLimitExceeded = "nil" /\ o.KeyFunc = "nil"
           /\ o.Rate = 1 /\ o.Burst = 1
           /\ InitWith(o)
    /\ serial = FALSE

\* every goroutine that can run eventually runs
SpecLive == InitLive /\ [][NextLock]_vars /\ \A r \in Reqs : WF_vars(Step(r))

\* ------------------------------------------------ a second instance
\* a request arrives at the second middleware instance
ServeHTTP2(r, addr, hdr) ==
    /\ req[r].pc = "idle"
    /\ r > 1 => req[r - 1].pc # "idle"
    /\ serial => \A q \in Reqs : req[q].pc \in {"idle", "done"}
    /\ LET c == [NewContext(addr, hdr) EXCEPT !.index = 1]
       IN  req' = [req EXCEPT ![r] = [@ EXCEPT !.pc = "get", !.c = c, !.key = KeyFunc(c),
                                               !.inst = 2]]
    /\ UNCHANGED <<conf, opts, serial, now, limiters, mu, limiters2, heap, log>>

NextTwo ==
    \/ \E r \in Reqs, addr \in Strings, hdr \in Strings : ServeHTTP(r, addr, hdr)
    \/ \E r \in Reqs, addr \in Strings, hdr \in Strings : ServeHTTP2(r, addr, hdr)
    \/ \E r \in Reqs : Get(r)
    \/ \E r \in Reqs : Set(r)
    \/ \E r \in Reqs : Allow(r)
    \/ Tick

\* two instances built by New with the same Options and no Options.Store,
\* requests issued one at a time
InitTwo ==
    /\ \E o \in OptionsSet : o.Store = "nil" /\ InitWith(o)
    /\ serial = TRUE

SpecTwo == InitTwo /\ [][NextTwo]_vars

\* ------------------------------------------------ the limiter's mutex
\* the requests inside limiter l's Allow(), holding its mutex
lim_mu(l) == {q \in Reqs : req[q].pc = "allowL" /\ req[q].limiter = l}

\* mutant: Allow() does not wait for the limiter's mutex
lim_CanLock_NoWait(l) == TRUE

\* lim.mu.Lock() returns when nobody is inside Allow() on this limiter
lim_CanLock(l) == lim_mu(l) = {}

\* limiter.Allow(): the mutex is taken, the clock and the limiter are read and
\* the decision is computed
AllowLock(r) ==
    /\ req[r].pc = "allow"
    /\ lim_CanLock(req[r].limiter)
    /\ LET l == req[r].limiter
           res == reserveN(heap[l], now)
       IN  req' = [req EXCEPT ![r] = [@ EXCEPT !.pc = "allowL", !.t = now, !.ok = res[1],
                                               !.avail = Available(heap[l], now),
                                               !.next = res[2]]]
    /\ log' = Append(log, r)
    /\ UNCHANGED <<conf, opts, serial, now, limiters, mu, limiters2, heap>>

\* limiter.Allow(): the limiter is written, the mutex released; then the
\* reject handler and Abort, or c.Next()
AllowUnlock(r) ==
    /\ req[r].pc = "allowL"
    /\ heap' = [heap EXCEPT ![req[r].limiter] = req[r].next]
    /\ req' = [req EXCEPT ![r] =
                  [@ EXCEPT !.pc = "done", !.next = IdleReq.next,
                            !.c = EngineResume(AfterAllow(req[r].c, req[r].ok, req[r].limiter))]]
    /\ UNCHANGED <<conf, opts, serial, now, limiters, mu, limiters2, log>>

\* the closure with the read and the write of Allow() apart
NextAllow ==
    \/ \E r \in Reqs, addr \in Strings, hdr \in Strings : ServeHTTP(r, addr, hdr)
    \/ \E r \in Reqs : Get(r)
    \/ \E r \in Reqs : Set(r)
    \/ \E r \in Reqs : AllowLock(r)
    \/ \E r \in Reqs : AllowUnlock(r)
    \/ Tick

\* concurrent requests on the default store, a limiter that refills
InitAllow ==
    /\ \E o \in OptionsSet :
           /\ o.Store = "nil" /\ o.OnLimitExceeded = "nil" /\ o.KeyFunc = "nil"
           /\ o.Rate = 1
           /\ InitWith(o)
    /\ serial = FALSE

SpecAllow == InitAllow /\ [][NextAllow]_vars

\* ================================================================= claims
Done(r) == req[r].pc = "done"

\* the requests of key k, in the order of their Allow() calls
LogOfKey(k) == SelectSeq(log, LAMBDA r : req[r].key = k)

\* the requests of key k admitted by an Allow() at time tau
AdmittedAt(k, tau) ==
    {r \in Reqs : Done(r) /\ req[r].key = k /\ req[r].t = tau /\ req[r].ok}

\* C1: burst bound.  In-memory store, sequential requests: among the requests
\* of one key whose Allow() calls happen at one instant at most Burst are
\* admitted, and from a new key on, as long as no time elapses, exactly the
\* first Burst calls return true and every later one returns false (Burst = 1:
\* first request admitted, immediate second rejected).
C1_BurstBound ==
    (serial /\ opts.Store = "memory") =>
        \A k \in Strings :
            /\ \A tau \in 0..MaxTime : Cardinality(AdmittedAt(k, tau)) <= opts.Burst
            /\ LET s == LogOfKey(k)
               IN  \A i \in 1..Len(s) :
                       (\A j \in 1..i : req[s[j]].t = req[s[1]].t)
                           => (req[s[i]].ok <=> i <= opts.Burst)

\* C1 witness: Burst = 1, two requests of one key at one instant, the first
\* admitted (200) and the second rejected (429).
C1_Witness ==
    /\ serial /\ opts.Store = "memory" /\ opts.Burst = 1
    /\ \E k \in Strings :
           LET s == LogOfKey(k)
           IN  /\ Len(s) >= 2
               /\ req[s[1]].t = req[s[2]].t
               /\ req[s[1]].ok /\ req[s[1]].c.status = StatusOK
               /\ ~req[s[2]].ok /\ req[s[2]].c.status = StatusTooManyRequests

\* C2: refill.  With a bucket that holds and refills tokens (Burst >= 1,
\* Rate > 0): when an Allow() for a key returned false at time t1, a later
\* Allow() for that key at a time >= t1 + Period, with no admitted request for
\* that key in between, returns true.
C2_Refill ==
    (opts.Burst >= 1 /\ opts.Rate > 0) =>
        \A i \in 1..Len(log), j \in 1..Len(log) :
            ( /\ i < j
              /\ req[log[i]].key = req[log[j]].key
              /\ ~req[log[i]].ok
              /\ req[log[j]].t >= req[log[i]].t + Period
              /\ \A m \in (i + 1)..(j - 1) :
                     req[log[m]].key = req[log[i]].key => ~req[log[m]].ok )
            => req[log[j]].ok

\* C2 witness: a rejected request, and the next request of that key, one
\* refill period later, admitted.
C2_Witness ==
    /\ opts.Burst >= 1 /\ opts.Rate > 0
    /\ \E i \in 1..Len(log), j \in 1..Len(log) :
           /\ i < j
           /\ req[log[i]].key = req[log[j]].key
           /\ req[log[i]].limiter = req[log[j]].limiter
           /\ ~req[log[i]].ok
           /\ req[log[j]].t >= req[log[i]].t + Period
           /\ req[log[j]].ok

\* the limiters that requests of key k hold or that the store keeps for k
OwnedBy(k) ==
    {l \in 1..Len(heap) :
        \/ limiters[k] = l
        \/ \E q \in Reqs : req[q].pc # "idle" /\ req[q].key = k /\ req[q].limiter = l}

\* everything the decisions of key k's requests are computed from
View(k) ==
    [entry |-> limiters[k],
     lims |-> [l \in OwnedBy(k) |-> heap[l]],
     reqs |-> [q \in {q \in Reqs : req[q].pc # "idle" /\ req[q].key = k} |-> req[q]]]

\* C3: per-key isolation, as the unwinding condition of non-interference: no
\* limiter ever serves two keys, and a step of a request with key A (its Get,
\* its Set, its Allow, whatever their number and interleaving) leaves the
\* store entry, the limiters and the requests of every other key B unchanged,
\* so the decisions for B are computed from the same state whatever A does.
C3_Isolation ==
    /\ [](\A a \in Strings, b \in Strings : a # b => OwnedBy(a) \cap OwnedBy(b) = {})
    /\ [][\A r \in Reqs : req'[r] # req[r] =>
             \A b \in Strings : b # req'[r].key => View(b)' = View(b)]_vars

\* C3 witness: key A's bucket is exhausted (a request of A rejected), and a
\* request of another key B, whose Allow() came later at the same instant, is
\* admitted.
C3_Witness ==
    \E i \in 1..Len(log), j \in 1..Len(log) :
        /\ i < j
        /\ req[log[i]].key # req[log[j]].key
        /\ req[log[i]].t = req[log[j]].t
        /\ ~req[log[i]].ok
        /\ req[log[j]].ok

\* the requests of key k that found no entry and constructed a limiter
Created(k) ==
    {r \in Reqs : req[r].key = k /\ req[r].pc \in {"allow", "done"} /\ ~req[r].exists}

\* C4 as stated: concurrent requests of one key at one instant admit at most
\* Burst of them, or Burst + 1 when two first requests raced on the new key.
C4_Original ==
    opts.Store = "memory" =>
        \A k \in Strings, tau \in 0..MaxTime :
            Cardinality(AdmittedAt(k, tau)) <=
                (IF Cardinality(Created(k)) >= 2 THEN opts.Burst + 1 ELSE opts.Burst)

\* C4 amended: at one instant each limiter admits at most Burst requests, and
\* a key has one limiter per request that missed on Get; the requests of one
\* key admitted at one instant are at most Burst times the limiters
\* constructed for the key (Burst when there was no race).
C4_ConcurrentAdmission ==
    opts.Store = "memory" =>
        \A k \in Strings, tau \in 0..MaxTime :
            LET A == AdmittedAt(k, tau)
                n == Cardinality(A)
                c == Cardinality(Created(k))
            IN  n > 0 =>
                    /\ \A l \in {req[r].limiter : r \in A} :
                           Cardinality({r \in A : req[r].limiter = l}) <= opts.Burst
                    /\ n <= opts.Burst * c
                    /\ c <= 1 => n <= opts.Burst

\* C4 witness: Burst = 1 and three concurrent first requests of one key, each
\* with its own limiter, all admitted at one instant.
C4_Witness ==
    /\ opts.Store = "memory" /\ opts.Burst = 1
    /\ \E k \in Strings, tau \in 0..MaxTime :
           /\ Cardinality(AdmittedAt(k, tau)) = 3
           /\ Cardinality(Created(k)) = 3

\* C5: a request that left the middleware was admitted or rejected as Allow()
\* decided.  Admitted: the downstream handler ran once, the reject handler
\* never, the chain was not aborted.  Rejected: the reject handler ran exactly
\* once, with the limiter that decided, the chain was aborted and the
\* downstream handler did not run.  Before Allow() neither handler has run.
C5_Outcome ==
    \A r \in Reqs :
        /\ (Done(r) /\ req[r].ok) =>
               /\ req[r].c.nextRan = 1
               /\ req[r].c.rejectCalls = 0
               /\ req[r].c.index < AbortIndex
        /\ (Done(r) /\ ~req[r].ok) =>
               /\ req[r].c.rejectCalls = 1
               /\ req[r].c.rejectLim = req[r].limiter
               /\ req[r].c.index >= AbortIndex
               /\ req[r].c.nextRan = 0
        /\ ~Done(r) => (req[r].c.nextRan = 0 /\ req[r].c.rejectCalls = 0)

\* C5 witness: one request admitted and one rejected.
C5_Witness ==
    \E r \in Reqs, q \in Reqs :
        /\ Done(r) /\ req[r].ok /\ req[r].c.nextRan = 1
        /\ Done(q) /\ ~req[q].ok /\ req[q].c.rejectCalls = 1

\* C6: the response of a rejected request is what the reject handler wrote
\* and nothing else: 429 "Too Many Requests" when Options.OnLimitExceeded is
\* nil, the custom handler's 418 "I'm a teapot" when it is set.
C6_RejectResponse ==
    \A r \in Reqs :
        (Done(r) /\ ~req[r].ok) =>
            IF conf.OnLimitExceeded = "nil"
            THEN req[r].c.status = StatusTooManyRequests
                 /\ req[r].c.body = <<"Too Many Requests">>
            ELSE req[r].c.status = StatusTeapot
                 /\ req[r].c.body = <<"I'm a teapot">>

\* C6 witness: a request rejected by the custom handler.
C6_Witness ==
    /\ conf.OnLimitExceeded = "teapot"
    /\ \E r \in Reqs : Done(r) /\ ~req[r].ok /\ req[r].c.status = StatusTeapot

\* C7: with the header key function the key is the header value, whatever the
\* client address; with Burst = 1 and the in-memory store, of two sequential
\* requests carrying one header value at one instant the first is admitted and
\* the second rejected, their addresses equal or not.
C7_CustomKey ==
    (serial /\ conf.KeyFunc = "header") =>
        /\ \A r \in Reqs : req[r].pc # "idle" => req[r].key = req[r].c.hdr
        /\ (opts.Store = "memory" /\ opts.Burst = 1) =>
               \A i \in 1..Len(log), j \in 1..Len(log) :
                   ( /\ i < j
                     /\ req[log[i]].c.hdr = req[log[j]].c.hdr
                     /\ req[log[i]].t = req[log[j]].t
                     /\ \A m \in 1..(i - 1) : req[log[m]].c.hdr # req[log[i]].c.hdr )
                   => (req[log[i]].ok /\ ~req[log[j]].ok)

\* C7 witness: two requests with one header value and different client
\* addresses, the first admitted and the second rejected.
C7_Witness ==
    /\ serial /\ conf.KeyFunc = "header" /\ opts.Store = "memory" /\ opts.Burst = 1
    /\ Len(log) >= 2
    /\ req[log[1]].c.hdr = req[log[2]].c.hdr
    /\ req[log[1]].c.addr # req[log[2]].c.addr
    /\ req[log[1]].t = req[log[2]].t
    /\ req[log[1]].ok /\ ~req[log[2]].ok

\* C8: with Options.KeyFunc nil the key is the client address; with the
\* in-memory store and sequential requests, two requests use the same limiter
\* exactly when their client addresses are equal.
C8_DefaultKey ==
    (serial /\ conf.KeyFunc = "nil") =>
        /\ \A r \in Reqs : req[r].pc # "idle" => req[r].key = req[r].c.addr
        /\ opts.Store = "memory" =>
               \A r \in Reqs, q \in Reqs :
                   (Done(r) /\ Done(q)) =>
                       (req[r].limiter = req[q].limiter <=> req[r].c.addr = req[q].c.addr)

\* C8 witness: two requests from one address (with different headers) on one
\* limiter, a third from another address on another limiter.
C8_Witness ==
    /\ serial /\ conf.KeyFunc = "nil" /\ opts.Store = "memory"
    /\ \E r \in Reqs, q \in Reqs, p \in Reqs :
           /\ Done(r) /\ Done(q) /\ Done(p) /\ r # q
           /\ req[r].c.addr = req[q].c.addr /\ req[r].c.hdr # req[q].c.hdr
           /\ req[r].limiter = req[q].limiter
           /\ req[p].c.addr # req[r].c.addr
           /\ req[p].limiter # req[r].limiter

\* C9 as stated: with Store = NewRedisStore(client), sequential requests of
\* one key at one instant share their state: the first Burst are admitted and
\* the next one is rejected.
C9_RedisSharedState ==
    (serial /\ conf.Store = "redis") =>
        \A k \in Strings :
            LET s == LogOfKey(k)
            IN  \A i \in 1..Len(s) :
                    (\A j \in 1..i : req[s[j]].t = req[s[1]].t)
                        => (req[s[i]].ok <=> i <= opts.Burst)

\* the requests whose Allow() on limiter l came before request r's
EarlierOn(l, r) ==
    {q \in Reqs : Done(q) /\ req[q].limiter = l /\
        \E i \in 1..Len(log), j \in 1..Len(log) : i < j /\ log[i] = q /\ log[j] = r}

\* C10 as stated: with Burst = 0 or Rate = 0 every request is rejected.
C10_Original ==
    (opts.Burst = 0 \/ opts.Rate = 0) => \A r \in Reqs : Done(r) => ~req[r].ok

\* C10 amended: New accepts both configurations; with Burst = 0 every request
\* is rejected, for every key and at every time; with Rate = 0 a limiter
\* admits exactly its first Burst Allow() calls and rejects every later one,
\* however much time has elapsed.
C10_Degenerate ==
    /\ opts.Burst = 0 => \A r \in Reqs : Done(r) => ~req[r].ok
    /\ opts.Rate = 0 =>
           \A r \in Reqs :
               Done(r) => (req[r].ok <=>
                              Cardinality(EarlierOn(req[r].limiter, r)) < opts.Burst)

\* C10 witness: Rate = 0 and Burst = 1, a limiter that admitted its first
\* request and rejected a second one a full period later.
C10_Witness ==
    /\ opts.Rate = 0 /\ opts.Burst = 1
    /\ \E r \in Reqs, q \in Reqs :
           /\ Done(r) /\ Done(q)
           /\ req[r].limiter = req[q].limiter
           /\ req[r].ok /\ ~req[q].ok
           /\ req[q].t >= req[r].t + Period

\* the request ended with a definitive outcome: admitted with the downstream
\* response, or rejected with the reject handler's response
Outcome(r) ==
    /\ Done(r)
    /\ req[r].ok => (req[r].c.status = StatusOK /\ req[r].c.nextRan = 1)
    /\ ~req[r].ok => (req[r].c.status = StatusTooManyRequests /\ req[r].c.rejectCalls = 1)

\* C11: termination.  With every runnable goroutine eventually scheduled,
\* each request that entered the middleware eventually ends admitted or
\* rejected, whatever requests (of the same key or others) contend for the
\* store's reader/writer lock; none stays blocked on the lock.
C11_Termination ==
    \A r \in Reqs : [](req[r].pc # "idle" => <>Outcome(r))

\* C11 witness: a request waits for the write lock that readers or a writer
\* hold, while another request has already ended.
C11_Witness ==
    \E r \in Reqs, q \in Reqs :
        /\ req[r].pc = "set" /\ ~mu_CanLock(mu)
        /\ Outcome(q)

\* the requests whose Set on key k has completed
SetDone(k) ==
    {r \in Reqs : req[r].key = k /\ ~req[r].exists /\ req[r].pc \in {"allow", "done"}}

\* the limiter of the most recent completed Set on key k (limiters are
\* numbered in the order of their Sets), Nil when no Set on k has completed
LastSet(k) ==
    IF SetDone(k) = {} THEN Nil
    ELSE CHOOSE l \in {req[r].limiter : r \in SetDone(k)} :
             \A r \in SetDone(k) : req[r].limiter <= l

\* C17: the in-memory store is a map with atomic Get and Set.  A writer holds
\* the lock alone; the entry of every key is the limiter of the most recent
\* completed Set on it (absent when there is none); a Get returns exactly
\* that entry; and a Set on k changes the entry of k only.
C17_StoreAtomicMap ==
    /\ [](/\ mu.writer # Nil => mu.readers = {}
          /\ mu.readers = {r \in Reqs : req[r].pc = "getR"}
          /\ \A r \in Reqs : req[r].pc = "setW" <=> mu.writer = r
          /\ \A k \in Strings : limiters[k] = LastSet(k))
    /\ [][\A r \in Reqs :
             /\ (req[r].pc = "getR" /\ req'[r].pc # "getR") =>
                    /\ req'[r].limiter = LastSet(req[r].key)
                    /\ req'[r].exists <=> LastSet(req[r].key) # Nil
             /\ (req[r].pc = "setW" /\ req'[r].pc # "setW") =>
                    /\ limiters'[req[r].key] = req[r].limiter
                    /\ \A k \in Strings : k # req[r].key => limiters'[k] = limiters[k]
             /\ (\A q \in Reqs : ~(req[q].pc = "setW" /\ req'[q].pc # "setW"))
                    => limiters' = limiters]_vars

\* C17 witness: two Sets on one key have completed, and a Get on that key
\* returned the limiter of the later one.
C17_Witness ==
    \E k \in Strings, r \in Reqs :
        /\ Cardinality(SetDone(k)) >= 2
        /\ req[r].key = k /\ req[r].exists /\ req[r].pc \in {"allow", "done"}
        /\ req[r].limiter = LastSet(k)
        /\ limiters[k] = LastSet(k)


\* how far ahead of the clock the refill is looked at
IdleMax == MaxTime + (MaxBurst + 1) * Period

\* C12: for every limiter the token count lies between 0 and Burst (the
\* stored count as well as the count Allow() would compute after any idle
\* time, which the refill caps at Burst); an Allow() admits only when at
\* least one token is available, deducts exactly one token and leaves a count
\* that is not negative.
C12_TokenInvariant ==
    /\ [](\A l \in 1..Len(heap) :
              /\ 0 <= heap[l].tokens /\ heap[l].tokens <= opts.Burst * Period
              /\ \A t \in (now..MaxTime) \cup {IdleMax} :
                     /\ 0 <= Available(heap[l], t)
                     /\ Available(heap[l], t) <= opts.Burst * Period)
    /\ [][\A r \in Reqs :
              (req[r].pc = "allow" /\ req'[r].pc = "done" /\ req'[r].ok) =>
                  LET l == req[r].limiter
                  IN  /\ Available(heap[l], now) >= Period
                      /\ Available(heap'[l], now) = Available(heap[l], now) - Period
                      /\ Available(heap'[l], now) >= 0
                      /\ heap'[l].tokens >= 0]_vars

\* C12 witness: a limiter drained to zero tokens by its admissions, and a
\* limiter left idle for so long that the refill is cut off at Burst.
C12_Witness ==
    /\ opts.Rate = 1 /\ opts.Burst >= 1
    /\ \E r \in Reqs :
           /\ Done(r) /\ req[r].ok
           /\ heap[req[r].limiter].tokens = 0
           /\ Available(heap[req[r].limiter], now) = 0
    /\ \E l \in 1..Len(heap) :
           /\ heap[l].tokens + (now - heap[l].last) > opts.Burst * Period
           /\ Available(heap[l], now) = opts.Burst * Period


\* the requests that entered Allow() on limiter l at instant tau
Group(l, tau) ==
    {r \in Reqs : req[r].pc \in {"allowL", "done"} /\ req[r].limiter = l /\ req[r].t = tau}

\* the whole tokens limiter l held when the first request of Group(l, tau)
\* entered Allow()
TokensHeld(l, tau) ==
    LET first == CHOOSE i \in 1..Len(log) :
                     /\ log[i] \in Group(l, tau)
                     /\ \A j \in 1..(i - 1) : log[j] \notin Group(l, tau)
    IN  req[log[first]].avail \div Period

\* C13: of the N requests that call Allow() on one limiter of the in-memory
\* store at one instant, the limiter holding T tokens when the first of them
\* enters, exactly min(N, T) are admitted, whatever the interleaving of their
\* steps.
C13_AllowAtomic ==
    \A l \in 1..Len(heap), tau \in 0..MaxTime :
        LET G == Group(l, tau)
        IN  G # {} =>
                Cardinality({r \in G : req[r].ok}) = Min(Cardinality(G), TokensHeld(l, tau))

\* C13 witness: three requests in Allow() on one stored limiter at one
\* instant, the limiter holding fewer tokens than that: one admitted and done,
\* one rejected and still inside Allow(), one waiting for the mutex.
C13_Witness ==
    \E r \in Reqs, q \in Reqs, p \in Reqs :
        /\ Done(r) /\ req[r].ok
        /\ req[q].pc = "allowL" /\ ~req[q].ok
        /\ req[p].pc = "allow" /\ ~lim_CanLock(req[p].limiter)
        /\ req[q].limiter = req[r].limiter /\ req[p].limiter = req[r].limiter
        /\ limiters[req[r].key] = req[r].limiter
        /\ req[q].t = req[r].t /\ now = req[r].t
        /\ TokensHeld(req[r].limiter, req[r].t) >= 1


\* the first instant from the clock on at which limiter lim would admit
NextAdmit(lim) ==
    LET S == {t \in now..IdleMax : Available(lim, t) >= Period}
    IN  IF S = {} THEN IdleMax + 1 ELSE CHOOSE t \in S : \A u \in S : t <= u

\* C14: an Allow() that rejects takes nothing from the limiter: the tokens
\* available now and after any further wait are what they were before the
\* call, so the instant of the next admission is not moved.
C14_RejectDeductsNothing ==
    [][\A r \in Reqs :
           (req[r].pc = "allow" /\ req'[r].pc = "done" /\ ~req'[r].ok) =>
               LET l == req[r].limiter
               IN  /\ \A t \in now..IdleMax :
                          Available(heap'[l], t) >= Available(heap[l], t)
                   /\ NextAdmit(heap'[l]) = NextAdmit(heap[l])]_vars

\* C14 witness: a limiter that admitted, rejected a later request before the
\* refill and admitted the next request exactly one period after the first.
C14_Witness ==
    \E r \in Reqs, q \in Reqs, p \in Reqs :
        /\ Done(r) /\ Done(q) /\ Done(p)
        /\ req[q].limiter = req[r].limiter /\ req[p].limiter = req[r].limiter
        /\ req[r].ok /\ ~req[q].ok /\ req[p].ok
        /\ req[r].t < req[q].t /\ req[q].t < req[p].t
        /\ req[p].t = req[r].t + Period
        /\ opts.Burst = 1


\* C15 as stated: two requests of one middleware instance with equal derived
\* keys (the empty key 0 included) make their Allow() call on the same limiter.
C15_SameLimiter ==
    \A r \in Reqs, q \in Reqs :
        (Done(r) /\ Done(q) /\ req[r].inst = req[q].inst /\ req[r].key = req[q].key)
            => req[r].limiter = req[q].limiter


\* the limiters instance i can reach: those in its store and those its
\* requests hold
Lims(i) ==
    ({StoreOf(i)[k] : k \in Strings} \ {Nil})
        \cup {req[r].limiter : r \in {q \in Reqs : req[q].inst = i /\ req[q].pc \in {"allow", "done"}}}

\* the requests of instance i and key k that finished before request r
EarlierIn(i, k, r) ==
    {q \in Reqs : req[q].inst = i /\ req[q].key = k /\
        \E a \in 1..Len(log), b \in 1..Len(log) : a < b /\ log[a] = q /\ log[b] = r}

\* C16: two instances built without Options.Store have separate stores and
\* reach no common limiter; a step of a request through one instance leaves
\* the other instance's store, limiters and requests as they were; and the
\* first request of a key through an instance is admitted (Burst >= 1)
\* whatever the other instance has done with that key.
C16_OwnStore ==
    /\ [](/\ Lims(1) \cap Lims(2) = {}
          /\ \A r \in Reqs :
                 (Done(r) /\ EarlierIn(req[r].inst, req[r].key, r) = {})
                     => (req[r].ok <=> opts.Burst >= 1))
    /\ [][\A r \in Reqs :
              req'[r] # req[r] =>
                  LET i == req'[r].inst
                      j == 3 - i
                  IN  /\ i = 1 => limiters2' = limiters2
                      /\ i = 2 => limiters' = limiters
                      /\ \A l \in Lims(j) : heap'[l] = heap[l]
                      /\ \A q \in Reqs : (q # r /\ req[q].inst = j) => req'[q] = req[q]]_vars

\* C16 witness: a key exhausted in instance 1 (its last request rejected) and
\* then a request of the same key admitted by instance 2 at the same instant,
\* each instance holding its own entry for the key.
C16_Witness ==
    \E r \in Reqs, q \in Reqs :
        /\ Done(r) /\ req[r].inst = 1 /\ ~req[r].ok
        /\ Done(q) /\ req[q].inst = 2 /\ req[q].ok
        /\ req[q].key = req[r].key /\ req[q].t = req[r].t
        /\ r < q /\ opts.Burst >= 1
        /\ limiters[req[r].key] = req[r].limiter
        /\ limiters2[req[q].key] = req[q].limiter
        /\ req[q].limiter # req[r].limiter


\* the requests that are past the middleware's Get and Set
PastSet == {r \in Reqs : req[r].pc \in {"allow", "done"}}

AdmittedIn(k, t1, t2) ==
    {r \in Reqs : Done(r) /\ req[r].ok /\ req[r].key = k /\ t1 <= req[r].t /\ req[r].t <= t2}

\* C19: with the in-memory store and sequential requests, the requests of
\* one key admitted in any interval t1..t2 number at most Burst plus the
\* periods the interval spans, (t2 - t1) / Period, wherever the interval lies
\* (both sides are multiplied by Period).
C19_RateBound ==
    (serial /\ opts.Store = "memory") =>
        \A k \in Strings, t1 \in 0..MaxTime, t2 \in 0..MaxTime :
            t1 <= t2 =>
                Cardinality(AdmittedIn(k, t1, t2)) * Period
                    <= opts.Burst * Period + (t2 - t1)

\* C19 witness: Burst = 1, a key admitted, rejected within the period and
\* admitted again one period later: two admissions in an interval of one
\* period, the bound reached.
C19_Witness ==
    /\ serial /\ opts.Store = "memory" /\ opts.Burst = 1 /\ opts.Rate = 1
    /\ \E r \in Reqs, q \in Reqs, p \in Reqs :
           /\ Done(r) /\ Done(q) /\ Done(p)
           /\ req[q].key = req[r].key /\ req[p].key = req[r].key
           /\ req[r].ok /\ ~req[q].ok /\ req[p].ok
           /\ req[r].t < req[q].t /\ req[p].t = req[r].t + Period
           /\ Cardinality(AdmittedIn(req[r].key, req[r].t, req[p].t)) = opts.Burst + 1


\* the requests of key k that missed on Get and have not yet called Set
Racing(k) == {r \in Reqs : req[r].key = k /\ req[r].pc = "set"}

\* C20: with the in-memory store, once a request of key k is done the store
\* has an entry for k, and an entry is never removed; a Get that runs while
\* the entry is there returns it, and that request does not call Set; the
\* entry of k is changed only by the Set of a request of key k whose Get
\* missed; and once an entry is there and no such request is left, the entry
\* stays the same in every later state.
C20_EntryStability ==
    /\ [](\A r \in Reqs : Done(r) => limiters[req[r].key] # Nil)
    /\ [][\A k \in Strings :
              /\ limiters[k] # Nil => limiters'[k] # Nil
              /\ limiters'[k] # limiters[k] =>
                     \E r \in Racing(k) :
                         /\ ~req[r].exists
                         /\ req'[r].pc = "allow"
                         /\ limiters'[k] = req'[r].limiter
              /\ (limiters[k] # Nil /\ Racing(k) = {}) =>
                     (limiters'[k] = limiters[k] /\ Racing(k)' = {})]_vars
    /\ [][\A r \in Reqs :
              (req[r].pc = "get" /\ req'[r].pc # "get" /\ limiters[req[r].key] # Nil) =>
                  /\ req'[r].exists
                  /\ req'[r].pc = "allow"
                  /\ req'[r].limiter = limiters[req[r].key]]_vars

\* C20 witness: two requests of a key raced and the second Set replaced the
\* entry of the first; both are done; a third request of the key came later,
\* found the entry of the second and is done without having called Set.
C20_Witness ==
    \E r \in Reqs, q \in Reqs, p \in Reqs :
        /\ Done(r) /\ Done(q) /\ Done(p)
        /\ req[q].key = req[r].key /\ req[p].key = req[r].key
        /\ ~req[r].exists /\ ~req[q].exists /\ req[p].exists
        /\ req[r].limiter < req[q].limiter
        /\ req[p].limiter = req[q].limiter
        /\ limiters[req[r].key] = req[q].limiter
        /\ Racing(req[r].key) = {}

====
